---- MODULE Spec2Model ----
(***************************************************************************)
(* Model of tools/generate_badge_certifications.py: the certification      *)
(* compiler that loads a YAML configuration, validates every record,       *)
(* groups and sorts the surviving ones and writes badge_certifications.json*)
(*                                                                         *)
(* Python dicts are functions whose DOMAIN is the set of keys present.     *)
(* Python strings are TLA+ strings; Chars gives their code points where    *)
(* the program looks inside a string (strptime, `in`, string comparison).  *)
(***************************************************************************)
EXTENDS Integers, Sequences, FiniteSets, TLC

(* Largest number of records in the certifications list of an input. *)
MaxCerts == 3

----------------------------------------------------------------------------
(* Strings *)

(* Code points of the strings the inputs are built from. *)
Chars(s) ==
    CASE s = "" -> <<>>
      [] s = "2024-01-01" -> <<50, 48, 50, 52, 45, 48, 49, 45, 48, 49>>
      [] s = "2023-06-01" -> <<50, 48, 50, 51, 45, 48, 54, 45, 48, 49>>
      [] s = "2023-1-01" -> <<50, 48, 50, 51, 45, 49, 45, 48, 49>>
      [] s = "1969-12-31" -> <<49, 57, 54, 57, 45, 49, 50, 45, 51, 49>>
      [] s = "2024-13-01" -> <<50, 48, 50, 52, 45, 49, 51, 45, 48, 49>>
      [] s = "2023-02-30" -> <<50, 48, 50, 51, 45, 48, 50, 45, 51, 48>>
      [] s = "1970-01-01" -> <<49, 57, 55, 48, 45, 48, 49, 45, 48, 49>>
      [] s = "http://v" -> <<104, 116, 116, 112, 58, 47, 47, 118>>
      [] s = "YOUR-URL" -> <<89, 79, 85, 82, 45, 85, 82, 76>>
      [] s = "YOUR-" -> <<89, 79, 85, 82, 45>>

IsDigit(c) == c \in 48..57
DigitVal(c) == c - 48

(* Python's a < b on str: code point by code point, a proper prefix first. *)
StrLess(a, b) ==
    LET x == Chars(a)
        y == Chars(b)
    IN  \E i \in 1..(Len(x) + 1) :
            /\ \A j \in 1..(i - 1) : j <= Len(y) /\ x[j] = y[j]
            /\ \/ i > Len(x) /\ i <= Len(y)
               \/ i <= Len(x) /\ i <= Len(y) /\ x[i] < y[i]

(* Python's `sub in s` on str. *)
StrContains(sub, s) ==
    LET p == Chars(sub)
        t == Chars(s)
    IN  \E k \in 0..(Len(t) - Len(p)) :
            \A j \in 1..Len(p) : t[k + j] = p[j]

----------------------------------------------------------------------------
(* datetime.strptime(s, '%Y-%m-%d') *)

(* %m matches 1[0-2]|0[1-9]|[1-9] *)
MonthForm(m) ==
    \/ Len(m) = 2 /\ m[1] = 49 /\ m[2] \in 48..50
    \/ Len(m) = 2 /\ m[1] = 48 /\ m[2] \in 49..57
    \/ Len(m) = 1 /\ m[1] \in 49..57

(* %d matches 3[01]|[12]\d|0[1-9]|[1-9]| [1-9] *)
DayForm(d) ==
    \/ Len(d) = 2 /\ d[1] = 51 /\ d[2] \in 48..49
    \/ Len(d) = 2 /\ d[1] \in 49..50 /\ IsDigit(d[2])
    \/ Len(d) = 2 /\ d[1] = 48 /\ d[2] \in 49..57
    \/ Len(d) = 2 /\ d[1] = 32 /\ d[2] \in 49..57
    \/ Len(d) = 1 /\ d[1] \in 49..57

(* int() of a matched group: one or two characters, a leading blank skipped. *)
NumVal(d) ==
    IF Len(d) = 1 THEN DigitVal(d[1])
    ELSE (IF d[1] = 32 THEN 0 ELSE 10 * DigitVal(d[1])) + DigitVal(d[2])

YearVal(y) ==
    1000 * DigitVal(y[1]) + 100 * DigitVal(y[2]) + 10 * DigitVal(y[3]) + DigitVal(y[4])

IsLeap(y) == (y % 4 = 0) /\ ((y % 100 # 0) \/ (y % 400 = 0))

DaysInMonth(y, m) ==
    IF m = 2 THEN (IF IsLeap(y) THEN 29 ELSE 28)
    ELSE IF m \in {4, 6, 9, 11} THEN 30 ELSE 31

(* The splits of s into year, month and day groups that the format's regular
   expression matches with nothing left over. *)
DateSplits(s) ==
    LET t == Chars(s)
    IN  { sp \in (1..2) \X (1..2) :
            /\ Len(t) = 6 + sp[1] + sp[2]
            /\ \A i \in 1..4 : IsDigit(t[i])
            /\ t[5] = 45
            /\ MonthForm(SubSeq(t, 6, 5 + sp[1]))
            /\ t[6 + sp[1]] = 45
            /\ DayForm(SubSeq(t, 7 + sp[1], 6 + sp[1] + sp[2])) }

(* The date strptime returns for s, as <<year, month, day>>. *)
ParsedDate(s) ==
    LET t == Chars(s)
        sp == CHOOSE x \in DateSplits(s) : TRUE
    IN  << YearVal(SubSeq(t, 1, 4)),
           NumVal(SubSeq(t, 6, 5 + sp[1])),
           NumVal(SubSeq(t, 7 + sp[1], 6 + sp[1] + sp[2])) >>

(* TRUE when strptime returns, FALSE when it raises ValueError. *)
StrptimeOk(s) ==
    /\ DateSplits(s) # {}
    /\ LET d == ParsedDate(s)
       IN  d[1] >= 1 /\ d[3] <= DaysInMonth(d[1], d[2])

----------------------------------------------------------------------------
(* dict helpers *)

(* d.get(k, default) *)
Get(d, k, default) == IF k \in DOMAIN d THEN d[k] ELSE default

(* bool(d.get(k)) for a string-valued key: absent and empty are both falsy *)
Truthy(d, k) == k \in DOMAIN d /\ d[k] # ""

----------------------------------------------------------------------------
(* validate_certification *)

RequiredFields == <<"title", "provider", "category", "badge_image">>
DateFields == <<"issue_date", "expiry_date">>

(* The errors list validate_certification returns, one element per message. *)
ValidateErrors(cert, category_metadata) ==
    LET missing == SelectSeq(RequiredFields, LAMBDA f : ~Truthy(cert, f))
        baddate == SelectSeq(DateFields,
                             LAMBDA f : Truthy(cert, f) /\ ~StrptimeOk(cert[f]))
    IN  IF missing # <<>>
        THEN [i \in 1..Len(missing) |-> <<"Missing required field", missing[i]>>]
        ELSE (IF cert["category"] \notin DOMAIN category_metadata
              THEN << <<"Invalid category", cert["category"]>> >>
              ELSE <<>>)
             \o [i \in 1..Len(baddate) |-> <<"Invalid date format", baddate[i]>>]

(* The warnings list validate_certification returns; badges_dir is the set of
   file names that exist in the badge directory. *)
ValidateWarnings(cert, badges_dir) ==
    IF \E i \in 1..Len(RequiredFields) : ~Truthy(cert, RequiredFields[i])
    THEN <<>>
    ELSE (IF cert["badge_image"] \notin badges_dir
          THEN << <<"Badge image not found", cert["badge_image"]>> >>
          ELSE <<>>)
         \o (IF ~Truthy(cert, "verification_url")
                \/ StrContains("YOUR-", Get(cert, "verification_url", ""))
             THEN << <<"Verification URL not configured", cert["title"]>> >>
             ELSE <<>>)

----------------------------------------------------------------------------
(* generate_badge_certifications_json: the loop body, the two sorts *)

DefaultSortOrder == 999
DefaultIssueDate == "1970-01-01"

OptionalFields == {"issue_date", "expiry_date", "credential_id", "description"}

(* cert_entry; badge_path and fallback_svg are derived from badge_image and
   provider alone and are left out. *)
CertEntry(cert) ==
    LET opt == { f \in OptionalFields : Truthy(cert, f) }
    IN  [ f \in {"title", "provider", "badge_image", "verification_url", "category"}
                \cup opt |->
            IF f = "verification_url" THEN Get(cert, "verification_url", "")
            ELSE cert[f] ]

(* The group a category gets when its first record arrives; the display
   fields (display_name, icon, color, description) are copied metadata and
   are left out. *)
NewCategory(category, category_metadata) ==
    LET cat_meta == Get(category_metadata, category, <<>>)
    IN  [ key |-> category,
          sort_order |-> Get(cat_meta, "sort_order", DefaultSortOrder),
          count |-> 0,
          certifications |-> <<>> ]

(* Position of a category in the ordered mapping output['categories'], 0 when
   the key is not in it. *)
CategoryIndex(categories, category) ==
    IF \E i \in 1..Len(categories) : categories[i].key = category
    THEN CHOOSE i \in 1..Len(categories) : categories[i].key = category
    ELSE 0

(* AddEntry without line 158: the category's count is not stepped. *)
AddEntryCountForgotten(out, cert, category_metadata) ==
    LET category == cert["category"]
        cats0 == out.categories
        cats1 == IF CategoryIndex(cats0, category) = 0
                 THEN Append(cats0, NewCategory(category, category_metadata))
                 ELSE cats0
        k == CategoryIndex(cats1, category)
        cats2 == [cats1 EXCEPT
                    ![k].certifications = Append(@, CertEntry(cert))]
    IN  [out EXCEPT !.categories = cats2, !.total_count = @ + 1]

(* Lines 120-159: a record without errors is appended to its category. *)
AddEntry(out, cert, category_metadata) ==
    LET category == cert["category"]
        cats0 == out.categories
        cats1 == IF CategoryIndex(cats0, category) = 0
                 THEN Append(cats0, NewCategory(category, category_metadata))
                 ELSE cats0
        k == CategoryIndex(cats1, category)
        cats2 == [cats1 EXCEPT
                    ![k].certifications = Append(@, CertEntry(cert)),
                    ![k].count = @ + 1]
    IN  [out EXCEPT !.categories = cats2, !.total_count = @ + 1]

(* LoopBody with the records after a failed one left out, as a `break` on
   line 112 would do. *)
LoopBodyStopsAtError(loop, cert, badges_dir, category_metadata) ==
    LET errors == ValidateErrors(cert, category_metadata)
        warnings == ValidateWarnings(cert, badges_dir)
    IN  IF loop.total_errors > 0
        THEN loop
        ELSE IF errors # <<>>
        THEN [loop EXCEPT !.total_errors = @ + Len(errors)]
        ELSE [loop EXCEPT
                !.total_warnings = @ + Len(warnings),
                !.output = AddEntry(@, cert, category_metadata)]

(* One pass of the for loop on lines 103-159. loop holds output and the two
   tallies. *)
LoopBody(loop, cert, badges_dir, category_metadata) ==
    LET errors == ValidateErrors(cert, category_metadata)
        warnings == ValidateWarnings(cert, badges_dir)
    IN  IF errors # <<>>
        THEN [loop EXCEPT !.total_errors = @ + Len(errors)]
        ELSE [loop EXCEPT
                !.total_warnings = @ + Len(warnings),
                !.output = AddEntry(@, cert, category_metadata)]

(* sorted(items, key=sort_order): stable, ascending. x goes before the first
   element whose key is greater. *)
RECURSIVE InsertBySortOrder(_, _)
InsertBySortOrder(sorted, x) ==
    IF sorted = <<>> THEN <<x>>
    ELSE IF Head(sorted).sort_order > x.sort_order THEN <<x>> \o sorted
    ELSE <<Head(sorted)>> \o InsertBySortOrder(Tail(sorted), x)

(* The categories left in the order their first records arrived. *)
CategoriesLeftUnsorted(categories) == categories

RECURSIVE SortCategoriesBySortOrder(_)
SortCategoriesBySortOrder(categories) ==
    IF categories = <<>> THEN <<>>
    ELSE InsertBySortOrder(
             SortCategoriesBySortOrder(SubSeq(categories, 1, Len(categories) - 1)),
             categories[Len(categories)])

(* key=lambda x: x.get('issue_date', '1970-01-01') *)
IssueKey(entry) == Get(entry, "issue_date", DefaultIssueDate)

(* list.sort(key=..., reverse=True): stable, descending on the string key. x
   goes before the first element whose key is smaller. *)
RECURSIVE InsertByIssueDate(_, _)
InsertByIssueDate(sorted, x) ==
    IF sorted = <<>> THEN <<x>>
    ELSE IF StrLess(IssueKey(Head(sorted)), IssueKey(x)) THEN <<x>> \o sorted
    ELSE <<Head(sorted)>> \o InsertByIssueDate(Tail(sorted), x)

RECURSIVE SortByIssueDateDesc(_)
SortByIssueDateDesc(entries) ==
    IF entries = <<>> THEN <<>>
    ELSE InsertByIssueDate(
             SortByIssueDateDesc(SubSeq(entries, 1, Len(entries) - 1)),
             entries[Len(entries)])

----------------------------------------------------------------------------
(* Inputs *)

(* The files in assets/badges. *)
BadgeFiles == {"aws.png", "cka.png"}

(* The records the certifications list of an input is drawn from. *)
CertPool == <<
    (* 1: complete, no warning *)
    [title |-> "AWS SA", provider |-> "Amazon Web Services", category |-> "cloud",
     badge_image |-> "aws.png", verification_url |-> "http://v",
     issue_date |-> "2024-01-01", expiry_date |-> "2024-01-01",
     credential_id |-> "X1"],
    (* 2: warnings only: no badge file, placeholder URL *)
    [title |-> "GCP ACE", provider |-> "Google Cloud", category |-> "cloud",
     badge_image |-> "gcp.png", verification_url |-> "YOUR-URL",
     issue_date |-> "2023-06-01"],
    (* 3: no issue date, no URL *)
    [title |-> "ML", provider |-> "Coursera", category |-> "cloud",
     badge_image |-> "aws.png"],
    (* 4: month without its leading zero; strptime accepts it *)
    [title |-> "AWS Dev", provider |-> "Amazon Web Services", category |-> "cloud",
     badge_image |-> "aws.png", verification_url |-> "http://v",
     issue_date |-> "2023-1-01"],
    (* 5: issued before 1970 *)
    [title |-> "LFS", provider |-> "Linux Foundation", category |-> "devops",
     badge_image |-> "cka.png", verification_url |-> "http://v",
     issue_date |-> "1969-12-31"],
    (* 6: empty issue date *)
    [title |-> "CKA", provider |-> "Linux Foundation", category |-> "devops",
     badge_image |-> "cka.png", verification_url |-> "http://v",
     issue_date |-> "", description |-> "k8s"],
    (* 7: title absent, badge_image empty *)
    [provider |-> "HashiCorp", category |-> "cloud", badge_image |-> "",
     issue_date |-> "2024-01-01"],
    (* 8: category that is no key of the categories map *)
    [title |-> "TF", provider |-> "HashiCorp", category |-> "security",
     badge_image |-> "aws.png", verification_url |-> "http://v",
     issue_date |-> "2024-01-01"],
    (* 9: month 13 *)
    [title |-> "Vault", provider |-> "HashiCorp", category |-> "cloud",
     badge_image |-> "aws.png", verification_url |-> "http://v",
     issue_date |-> "2024-13-01"],
    (* 10: 30 February as expiry date *)
    [title |-> "Consul", provider |-> "HashiCorp", category |-> "devops",
     badge_image |-> "cka.png", verification_url |-> "http://v",
     issue_date |-> "2023-06-01", expiry_date |-> "2023-02-30"] >>

(* The categories maps of an input. *)
CategoryMaps == <<
    [cloud |-> [display_name |-> "Cloud", sort_order |-> 2],
     devops |-> [display_name |-> "DevOps", sort_order |-> 1]],
    [cloud |-> [display_name |-> "Cloud"],
     devops |-> [display_name |-> "DevOps", sort_order |-> 1]] >>

(* The certifications lists of at most MaxCerts records. *)
CertLists ==
    UNION { { [i \in 1..n |-> CertPool[ix[i]]] : ix \in [1..n -> 1..Len(CertPool)] }
            : n \in 0..MaxCerts }

(* Content of the destination file before the run. *)
OldFile == [kind |-> "old", doc |-> <<>>]

----------------------------------------------------------------------------
(* State *)

VARIABLES
    yaml_file,      \* badge_certifications.yaml: [status, doc]
    dest_file,      \* assets/badge_certifications.json: [kind, doc]
    pc,             \* position of main
    config,         \* main's config: [none, val]
    loop,           \* generate's output, total_errors, total_warnings
    idx,            \* number of the record the loop is at
    result,         \* what generate returned: [output, error_count]
    rc              \* the process's exit status, once pc = "exit"

vars == <<yaml_file, dest_file, pc, config, loop, idx, result, rc>>

(* status "missing": no file; "malformed": yaml.YAMLError; "empty": safe_load
   returns None; "ok": safe_load returns the mapping doc. *)
Init ==
    /\ \/ yaml_file = [status |-> "missing", doc |-> <<>>]
       \/ yaml_file = [status |-> "malformed", doc |-> <<>>]
       \/ yaml_file = [status |-> "empty", doc |-> <<>>]
       \/ yaml_file = [status |-> "ok", doc |-> <<>>]
       \/ yaml_file = [status |-> "ok", doc |-> [site |-> "vijaymourya"]]
       \/ \E k \in 1..Len(CategoryMaps) :
            yaml_file = [status |-> "ok", doc |-> [categories |-> CategoryMaps[k]]]
       \/ \E certs \in CertLists :
            yaml_file = [status |-> "ok", doc |-> [certifications |-> certs]]
       \/ \E certs \in CertLists, k \in 1..Len(CategoryMaps) :
            yaml_file = [status |-> "ok",
                         doc |-> [certifications |-> certs,
                                  categories |-> CategoryMaps[k]]]
    /\ dest_file = OldFile
    /\ pc = "load"
    /\ config = [none |-> TRUE, val |-> <<>>]
    /\ loop = [output |-> <<>>, total_errors |-> 0, total_warnings |-> 0]
    /\ idx = 0
    /\ result = [output |-> <<>>, error_count |-> 0]
    /\ rc = 0

(* load_yaml_config: None when the file is missing or malformed, else what
   safe_load returns. *)
LoadYamlConfig(file) ==
    IF file.status = "ok" THEN [none |-> FALSE, val |-> file.doc]
    ELSE [none |-> TRUE, val |-> <<>>]

(* Python's `not config`: None and the empty mapping are both falsy. *)
NotConfig(c) == c.none \/ DOMAIN c.val = {}

(* generate's locals *)
certifications == Get(config.val, "certifications", <<>>)
category_metadata == Get(config.val, "categories", <<>>)

(* datetime.now().isoformat() *)
Now == "2026-11-02T10:05:00"

(* main, lines 208-211 *)
Load ==
    /\ pc = "load"
    /\ config' = LoadYamlConfig(yaml_file)
    /\ IF NotConfig(config')
       THEN pc' = "exit" /\ rc' = 1
       ELSE pc' = "generate" /\ rc' = rc
    /\ UNCHANGED <<yaml_file, dest_file, loop, idx, result>>

(* generate_badge_certifications_json, lines 84-100 *)
Begin ==
    /\ pc = "generate"
    /\ IF certifications = <<>>
       THEN /\ result' = [output |-> [categories |-> <<>>, total_count |-> 0],
                          error_count |-> 0]
            /\ pc' = "check"
            /\ UNCHANGED <<loop, idx>>
       ELSE /\ loop' = [output |-> [last_updated |-> Now, total_count |-> 0,
                                    categories |-> <<>>],
                        total_errors |-> 0, total_warnings |-> 0]
            /\ idx' = 1
            /\ pc' = "loop"
            /\ UNCHANGED result
    /\ UNCHANGED <<yaml_file, dest_file, config, rc>>

(* lines 103-159, one record *)
ProcessCert ==
    /\ pc = "loop"
    /\ idx <= Len(certifications)
    /\ loop' = LoopBody(loop, certifications[idx], BadgeFiles, category_metadata)
    /\ idx' = idx + 1
    /\ UNCHANGED <<yaml_file, dest_file, pc, config, result, rc>>

(* lines 161-166 *)
SortCategories ==
    /\ pc = "loop"
    /\ idx > Len(certifications)
    /\ loop' = [loop EXCEPT
                  !.output.categories = SortCategoriesBySortOrder(@)]
    /\ pc' = "sort_certifications"
    /\ UNCHANGED <<yaml_file, dest_file, config, idx, result, rc>>

(* lines 168-191: the per-category sort, the summary and the return *)
SortCertifications ==
    /\ pc = "sort_certifications"
    /\ LET cats == loop.output.categories
           sorted == [i \in 1..Len(cats) |->
                        [cats[i] EXCEPT
                           !.certifications = SortByIssueDateDesc(@)]]
       IN  /\ loop' = [loop EXCEPT !.output.categories = sorted]
           /\ result' = [output |-> loop'.output,
                         error_count |-> loop.total_errors]
    /\ pc' = "check"
    /\ UNCHANGED <<yaml_file, dest_file, config, idx, rc>>

(* main, lines 216-219 *)
CheckErrors ==
    /\ pc = "check"
    /\ IF result.error_count > 0
       THEN pc' = "exit" /\ rc' = 1
       ELSE pc' = "open" /\ rc' = rc
    /\ UNCHANGED <<yaml_file, dest_file, config, loop, idx, result>>

(* line 222: open(output_file, 'w') truncates the destination *)
OpenOutput ==
    /\ pc = "open"
    /\ dest_file' = [kind |-> "truncated", doc |-> <<>>]
    /\ pc' = "dump"
    /\ UNCHANGED <<yaml_file, config, loop, idx, result, rc>>

(* lines 223-233: json.dump writes the whole document, main returns 0 *)
Dump ==
    /\ pc = "dump"
    /\ dest_file' = [kind |-> "complete", doc |-> result.output]
    /\ pc' = "exit"
    /\ rc' = 0
    /\ UNCHANGED <<yaml_file, config, loop, idx, result>>

(* line 223: a write of json.dump raises (OSError, or TypeError on a value
   json cannot encode); the exception leaves main and the interpreter exits
   with status 1, the file holding what was written so far. *)
DumpRaises ==
    /\ pc = "dump"
    /\ dest_file' = [kind |-> "partial", doc |-> <<>>]
    /\ pc' = "exit"
    /\ rc' = 1
    /\ UNCHANGED <<yaml_file, config, loop, idx, result>>

Next ==
    \/ Load
    \/ Begin
    \/ ProcessCert
    \/ SortCategories
    \/ SortCertifications
    \/ CheckErrors
    \/ OpenOutput
    \/ Dump
    \/ DumpRaises

Spec == Init /\ [][Next]_vars

----------------------------------------------------------------------------
(* Vocabulary of the properties *)

(* generate_badge_certifications_json has returned to main. *)
Generated == pc \in {"check", "open", "dump"} \/ (pc = "exit" /\ ~NotConfig(config))

(* The record passes validation: validate_certification returns no errors. *)
Passes(cert) == ValidateErrors(cert, category_metadata) = <<>>

(* The record passes validation and draws at least one warning. *)
OnlyWarned(cert) == Passes(cert) /\ ValidateWarnings(cert, BadgeFiles) # <<>>

PassingRecords == { i \in 1..Len(certifications) : Passes(certifications[i]) }
FailingRecords == { i \in 1..Len(certifications) : ~Passes(certifications[i]) }

RECURSIVE SumCounts(_)
SumCounts(categories) ==
    IF categories = <<>> THEN 0
    ELSE Head(categories).count + SumCounts(Tail(categories))

(* The entries of category c in an ordered categories mapping. *)
EntriesOf(categories, c) ==
    IF CategoryIndex(categories, c) = 0 THEN <<>>
    ELSE categories[CategoryIndex(categories, c)].certifications

(* The entries the first n records owe to category c, in input order. *)
RECURSIVE OwedEntries(_, _)
OwedEntries(n, c) ==
    IF n = 0 THEN <<>>
    ELSE IF Passes(certifications[n]) /\ certifications[n]["category"] = c
         THEN Append(OwedEntries(n - 1, c), CertEntry(certifications[n]))
         ELSE OwedEntries(n - 1, c)

(* The number of error messages the first n records draw. *)
RECURSIVE OwedErrors(_)
OwedErrors(n) ==
    IF n = 0 THEN 0
    ELSE OwedErrors(n - 1) + Len(ValidateErrors(certifications[n], category_metadata))

CategoryKeys == { "cloud", "devops", "security" }

(* s is a calendar date written YYYY-MM-DD: ten characters, two-digit month
   and day. *)
IsYMD(s) ==
    LET t == Chars(s)
    IN  /\ Len(t) = 10
        /\ \A i \in {1, 2, 3, 4, 6, 7, 9, 10} : IsDigit(t[i])
        /\ t[5] = 45 /\ t[8] = 45
        /\ LET y == YearVal(SubSeq(t, 1, 4))
               m == NumVal(SubSeq(t, 6, 7))
               d == NumVal(SubSeq(t, 9, 10))
           IN  y >= 1 /\ m \in 1..12 /\ d \in 1..DaysInMonth(y, m)

(* The calendar date of an entry's issue date, as one number. *)
CalendarDay(entry) ==
    LET d == ParsedDate(entry["issue_date"])
    IN  d[1] * 10000 + d[2] * 100 + d[3]

----------------------------------------------------------------------------
(* C1: once generate has returned, total_count is the number of input
   records for which validate_certification returns no errors (records that
   only draw warnings are counted), and it is the sum of the count fields of
   the categories of the output. *)
C1_TotalCount ==
    Generated =>
        /\ result.output.total_count = Cardinality(PassingRecords)
        /\ result.output.total_count = SumCounts(result.output.categories)

(* A run with a failed record, a record that is only warned, and two
   categories with entries. *)
C1_Witness ==
    /\ pc = "check"
    /\ FailingRecords # {}
    /\ \E i \in PassingRecords : OnlyWarned(certifications[i])
    /\ Len(result.output.categories) = 2
    /\ result.output.total_count = 2

(* C2: no entry of the output comes from a record with an absent or empty
   title, provider, category or badge_image, from a record whose category is
   no key of the categories map, or from a record whose issue_date or
   expiry_date is present but is not a YYYY-MM-DD date. *)
C2_NoInvalidEntry ==
    Generated =>
        \A k \in 1..Len(result.output.categories) :
            LET entries == result.output.categories[k].certifications
            IN  \A j \in 1..Len(entries) :
                    /\ \A f \in {"title", "provider", "category", "badge_image"} :
                           Truthy(entries[j], f)
                    /\ entries[j]["category"] \in DOMAIN category_metadata
                    /\ \A f \in {"issue_date", "expiry_date"} :
                           f \in DOMAIN entries[j] => IsYMD(entries[j][f])

(* C3: main exits with status 1 exactly when the configuration is missing or
   cannot be parsed or some record fails validation, and with status 0
   otherwise. A configuration file without content is counted with the
   unparseable ones, and a run that an exception ends is left aside. *)
C3_ExitCode ==
    (pc = "exit" /\ dest_file.kind # "partial") =>
        (rc = 1 <=> (\/ yaml_file.status \in {"missing", "malformed", "empty"}
                     \/ FailingRecords # {}))

(* C4: in every category of the output, of two entries with issue dates the
   one with the later calendar date comes first, and no entry without an
   issue date comes before an entry with one. *)
C4_IssueDateOrder ==
    Generated =>
        \A k \in 1..Len(result.output.categories) :
            LET entries == result.output.categories[k].certifications
            IN  \A i \in 1..Len(entries), j \in 1..Len(entries) :
                    i < j =>
                        /\ ("issue_date" \in DOMAIN entries[i]
                              /\ "issue_date" \in DOMAIN entries[j])
                           => CalendarDay(entries[i]) >= CalendarDay(entries[j])
                        /\ ~("issue_date" \notin DOMAIN entries[i]
                              /\ "issue_date" \in DOMAIN entries[j])

(* C5: the categories of the output are in non-decreasing sort_order, where a
   category whose metadata gives no sort_order has sort_order 999. *)
C5_CategoriesSorted ==
    Generated =>
        LET cats == result.output.categories
        IN  /\ \A i \in 1..Len(cats), j \in 1..Len(cats) :
                   i < j => cats[i].sort_order <= cats[j].sort_order
            /\ \A i \in 1..Len(cats) :
                   cats[i].sort_order =
                       IF "sort_order" \in DOMAIN category_metadata[cats[i].key]
                       THEN category_metadata[cats[i].key]["sort_order"]
                       ELSE 999

(* Two categories, the one that got its first record first listed second, and
   a category on the default sort_order. *)
C5_Witness ==
    /\ pc = "check"
    /\ Len(result.output.categories) = 2
    /\ \E i \in PassingRecords :
          /\ \A j \in PassingRecords : i <= j
          /\ certifications[i]["category"] = result.output.categories[2].key
    /\ result.output.categories[2].sort_order = 999

(* C6: with zero certifications (the key absent or the list empty, with or
   without a categories map) the output has total_count 0 and no categories,
   the file is written and main exits with status 0. *)
C6_ZeroCertifications ==
    (/\ pc = "exit"
     /\ yaml_file.status = "ok"
     /\ Get(yaml_file.doc, "certifications", <<>>) = <<>>
     /\ dest_file.kind # "partial") =>
        /\ rc = 0
        /\ dest_file.kind = "complete"
        /\ dest_file.doc["total_count"] = 0
        /\ dest_file.doc["categories"] = <<>>

(* C7: a run ends with status 0 and the destination holding the complete new
   document, or with a non-zero status and the destination holding what it
   held before the run. *)
C7_WholeOrUntouched ==
    pc = "exit" =>
        \/ rc = 0 /\ dest_file.kind = "complete"
        \/ rc # 0 /\ dest_file.kind = "old"

(* C8: every document main writes has the members last_updated, total_count
   and categories. *)
C8_DocumentShape ==
    dest_file.kind = "complete" =>
        {"last_updated", "total_count", "categories"} \subseteq DOMAIN dest_file.doc

(* C10: a failed record does not stop the loop. While the loop runs, every
   category holds exactly the entries of the passing records among those
   already visited, in input order, and the error tally covers all of them;
   the loop is left only after the last record; and the error count generate
   returns is positive exactly when some record failed. *)
C10_LoopContinues ==
    /\ pc = "loop" =>
          /\ idx \in 1..(Len(certifications) + 1)
          /\ \A c \in CategoryKeys :
                EntriesOf(loop.output.categories, c) = OwedEntries(idx - 1, c)
          /\ loop.total_errors = OwedErrors(idx - 1)
    /\ pc = "sort_certifications" =>
          /\ idx = Len(certifications) + 1
          /\ \A c \in CategoryKeys :
                EntriesOf(loop.output.categories, c)
                    = OwedEntries(Len(certifications), c)
    /\ Generated =>
          (result.error_count > 0 <=> FailingRecords # {})

(* The loop is past a failed record and has added the passing record that
   follows it. *)
C10_Witness ==
    /\ pc = "loop"
    /\ idx = 3
    /\ ~Passes(certifications[1])
    /\ Passes(certifications[2])
    /\ loop.output.total_count = 1
    /\ loop.total_errors > 0

====
